---- MODULE Spec2Model ----
(***************************************************************************)
(* Model of actions.py: the four actions load_data, query, cleanup and     *)
(* return_my_thread_id, the helper _access_file, and the parts of the      *)
(* embedded SQL engine and of the filesystem that the actions drive.       *)
(* Every action of the model is one whole call of one action of the code.  *)
(***************************************************************************)
EXTENDS Integers, Sequences, FiniteSets, TLC

\* ------------------------------------------------------------------------
\* Bounds and program constants
\* ------------------------------------------------------------------------

\* Largest number of data rows of the uploaded CSV file.
MaxRows == 10

\* actions.py:63  "if distinct_count < 10"
CategoricalThreshold == 10

\* actions.py:75  "SELECT * FROM customers LIMIT 5"
SampleLimit == 5

\* SQL NULL (Python None); CSV cell values are the naturals.
NULL == 0 - 1

\* actions.py:7, 30
DB_PATH == "data/customer_data.duckdb"
table_name == "customers"

\* ------------------------------------------------------------------------
\* Paths (pathlib.Path): directory part, stem and suffix of the last part
\* ------------------------------------------------------------------------

MkPath(d, s, x) == [dir |-> d, stem |-> s, suffix |-> x]

\* Path(filename).name : the last component, directory dropped
PathName(p) == MkPath("", p.stem, p.suffix)

StageDir == "/tmp/chat-files"

\* The filenames a caller passes to load_data.
FileA      == MkPath("", "a", ".csv")            \* bare basename, an attachment
FileAAbs   == MkPath("/home/llm", "a", ".csv")   \* a made-up absolute path to it
FileB      == MkPath("/data/in", "b", ".csv")    \* a real local path, no attachment
FileReport == MkPath("", "report", ".csv")       \* neither attachment nor local file
FileNames  == {FileA, FileAAbs, FileB, FileReport}

\* Suffixes the attachment service may give the staged temporary copy.
StagedSuffixes == {"", ".tmp"}

\* ------------------------------------------------------------------------
\* Tables and CSV contents
\* ------------------------------------------------------------------------

Col(n, t) == [name |-> n, type |-> t]

NoTable == [exists |-> FALSE, cols |-> <<>>, rows |-> <<>>]
MkTable(cols, rows) == [exists |-> TRUE, cols |-> cols, rows |-> rows]

NoFile == [readable |-> FALSE, cols |-> <<>>, rows |-> <<>>]
MkCsv(cols, rows) == [readable |-> TRUE, cols |-> cols, rows |-> rows]

\* The uploaded file: n data rows, ids n..1 in file order, a three-valued
\* category column, and optionally one more row with an empty id cell.
CsvA(n, withNull) ==
    MkCsv(<<Col("id", "BIGINT"), Col("cat", "BIGINT")>>,
          [i \in 1..n |-> <<n + 1 - i, i % 3>>]
            \o (IF withNull THEN <<<<NULL, 0>>>> ELSE <<>>))

CsvB == MkCsv(<<Col("name", "BIGINT")>>, <<<<7>>, <<7>>, <<4>>>>)

CsvFamily == {CsvA(n, w) : n \in 0..MaxRows, w \in BOOLEAN}

\* ------------------------------------------------------------------------
\* The embedded SQL engine, as far as the actions use it
\* ------------------------------------------------------------------------

ColNames(cols) == [i \in 1..Len(cols) |-> cols[i].name]

HasCol(t, name) == \E i \in 1..Len(t.cols) : t.cols[i].name = name

ColIndex(t, name) == CHOOSE i \in 1..Len(t.cols) : t.cols[i].name = name

\* every value of the column, NULL included
ColumnValues(t, name) ==
    {t.rows[r][ColIndex(t, name)] : r \in 1..Len(t.rows)}

\* SELECT COUNT(DISTINCT "col") FROM customers : the aggregate skips NULLs
CountDistinct(t, name) == Cardinality(ColumnValues(t, name) \ {NULL})

RECURSIVE SortAsc(_)
SortAsc(S) ==
    IF S = {} THEN <<>>
    ELSE LET m == CHOOSE x \in S : \A y \in S : x <= y
         IN  <<m>> \o SortAsc(S \ {m})

\* ORDER BY "col" (ascending, the engine's default puts NULL last)
OrderBy(S) ==
    SortAsc(S \ {NULL}) \o (IF NULL \in S THEN <<NULL>> ELSE <<>>)

\* SELECT DISTINCT "col" FROM customers ORDER BY "col" : one row per value,
\* NULL being one of them
SelectDistinctOrdered(t, name) == OrderBy(ColumnValues(t, name))

\* SELECT COUNT(*) FROM customers
CountRows(t) == Len(t.rows)

\* SELECT * FROM customers LIMIT n : the first n rows in storage order
Limit(rows, n) == SubSeq(rows, 1, IF Len(rows) < n THEN Len(rows) ELSE n)

\* str(value) of a fetched cell
Str(v) == IF v = NULL THEN <<"None", 0>> ELSE <<"int", v>>

StrRow(row) == [i \in 1..Len(row) |-> Str(row[i])]

StrRows(rows) == [r \in 1..Len(rows) |-> StrRow(rows[r])]

\* information_schema.columns WHERE table_name = 'customers'
\* ORDER BY ordinal_position : the columns of every table of that name, in
\* whatever schema; rows of equal ordinal position come in either order.
RECURSIVE MergeByPosition(_, _, _, _)
MergeByPosition(m, s, p, mainFirst) ==
    IF p > Len(m) /\ p > Len(s) THEN <<>>
    ELSE LET a == IF p <= Len(m) THEN <<m[p]>> ELSE <<>>
             b == IF p <= Len(s) THEN <<s[p]>> ELSE <<>>
         IN  (IF mainFirst THEN a \o b ELSE b \o a)
               \o MergeByPosition(m, s, p + 1, mainFirst)

InfoSchemaColumns(main, other, mainFirst) ==
    MergeByPosition(main.cols, other.cols, 1, mainFirst)

\* information_schema.tables WHERE table_schema = 'main' ORDER BY table_name
InfoSchemaTables(main) ==
    IF main.exists THEN <<<<table_name, "BASE TABLE">>>> ELSE <<>>

\* SQL text is a sequence of tokens; " " and "\n" are whitespace.
Whitespace == {" ", "\n"}

RECURSIVE LStrip(_)
LStrip(q) ==
    IF q # <<>> /\ Head(q) \in Whitespace THEN LStrip(Tail(q)) ELSE q

RECURSIVE RStrip(_)
RStrip(q) ==
    IF q # <<>> /\ q[Len(q)] \in Whitespace
    THEN RStrip(SubSeq(q, 1, Len(q) - 1)) ELSE q

\* str.strip()
Strip(q) == RStrip(LStrip(q))

SqlEmpty        == <<>>
SqlBlank        == <<" ", "\n">>
SqlSelectAll    == <<"SELECT", "*", "FROM", "customers">>
SqlSelectPadded == <<" ", "SELECT", "*", "FROM", "customers", "\n">>
SqlNonexistent  == <<"SELECT", "*", "FROM", "nonexistent">>
SqlMalformed    == <<"SELEC", "*">>
SqlDrop         == <<"DROP", "TABLE", "customers">>
SqlDelete       == <<"DELETE", "FROM", "customers">>
SqlCreateSchema == <<"CREATE", "SCHEMA", "s2">>
SqlCreateOther  == <<"CREATE", "TABLE", "s2.customers", "(", "id", "INTEGER", ")">>
SqlCreateOtherZ == <<"CREATE", "TABLE", "s2.customers", "(", "zzz", "INTEGER", ")">>

SqlQueries ==
    {SqlEmpty, SqlBlank, SqlSelectAll, SqlSelectPadded, SqlNonexistent,
     SqlMalformed, SqlDrop, SqlDelete, SqlCreateSchema, SqlCreateOther,
     SqlCreateOtherZ}

\* The catalog of an open store: main.customers, schema s2, s2.customers.
MkDb(main, schema, other) == [main |-> main, s2 |-> schema, other |-> other]

EmptyDb == MkDb(NoTable, FALSE, NoTable)

SqlOk(db, cols, rows) ==
    [ok |-> TRUE, err |-> "", db |-> db, cols |-> cols, rows |-> rows]

SqlError(db, e) ==
    [ok |-> FALSE, err |-> e, db |-> db, cols |-> <<>>, rows |-> <<>>]

\* con.execute(sql).fetchall() with con.description, for the statements above
Execute(sql, db) ==
    LET q == Strip(sql) IN
    IF q = SqlSelectAll THEN
        IF db.main.exists
        THEN SqlOk(db, ColNames(db.main.cols), db.main.rows)
        ELSE SqlError(db, "CatalogException")
    ELSE IF q = SqlNonexistent THEN SqlError(db, "CatalogException")
    ELSE IF q = SqlDrop THEN
        IF db.main.exists
        THEN SqlOk(MkDb(NoTable, db.s2, db.other), <<"Count">>, <<>>)
        ELSE SqlError(db, "CatalogException")
    ELSE IF q = SqlDelete THEN
        IF db.main.exists
        THEN SqlOk(MkDb(MkTable(db.main.cols, <<>>), db.s2, db.other),
                   <<"Count">>, <<<<CountRows(db.main)>>>>)
        ELSE SqlError(db, "CatalogException")
    ELSE IF q = SqlCreateSchema THEN
        IF db.s2
        THEN SqlError(db, "CatalogException")
        ELSE SqlOk(MkDb(db.main, TRUE, db.other), <<"Count">>, <<>>)
    ELSE IF q \in {SqlCreateOther, SqlCreateOtherZ} THEN
        IF ~db.s2 \/ db.other.exists
        THEN SqlError(db, "CatalogException")
        ELSE SqlOk(MkDb(db.main, db.s2,
                        MkTable(<<Col(q[5], q[6])>>, <<>>)),
                   <<"Count">>, <<>>)
    ELSE SqlError(db, "ParserException")

\* ------------------------------------------------------------------------
\* State
\* ------------------------------------------------------------------------

VARIABLES
    dirExists,   \* the directory "data" of DB_PATH exists
    removable,   \* os.remove(DB_PATH) is permitted
    storeFile,   \* the file DB_PATH exists
    db,          \* the catalog stored in DB_PATH (EmptyDb while it is absent)
    csvA,        \* content of the chat attachment "a.csv"
    last         \* the last call: operation, argument and what it returned

vars == <<dirExists, removable, storeFile, db, csvA, last>>

\* ------------------------------------------------------------------------
\* What a call returns
\* ------------------------------------------------------------------------

NoReport ==
    [row_count |-> 0, orig |-> MkPath("", "", ""), path |-> MkPath("", "", ""),
     fellBack |-> FALSE, schema |-> <<>>, header |-> <<>>, rows |-> <<>>]

\* Response(result=...) or a raised exception, with the call it answers.
\* existedBefore: the store file existed when the call began.
\* repeat: the call before it was the same operation with the same argument
\* and returned a Response.
MkLast(op, arg, status, msg, err, rep) ==
    [op |-> op, arg |-> arg, status |-> status, msg |-> msg, err |-> err,
     existedBefore |-> storeFile,
     repeat |-> (last.op = op /\ last.arg = arg /\ last.status = "ok"),
     report |-> rep]

Returned(op, arg, msg, err, rep) == MkLast(op, arg, "ok", msg, err, rep)

Raised(op, arg, err, rep) == MkLast(op, arg, "raise", "exception", err, rep)

\* duckdb.connect(database=DB_PATH): fails when the directory is missing,
\* otherwise opens the file, creating an empty database if there is none.
ConnectOk == dirExists

\* whether DB_PATH exists once connect() has run
FileAfterConnect == IF ConnectOk THEN TRUE ELSE storeFile

\* ------------------------------------------------------------------------
\* _access_file
\* ------------------------------------------------------------------------

\* basenames the attachment service holds
Attachments == {PathName(FileA)}

\* chat.get_file(basename): the staged temporary copy
ChatHasFile(name) == name \in Attachments

ChatGetFile(name, stagedSuffix) == MkPath(StageDir, name.stem, stagedSuffix)

\* Variant of _access_file whose except branch hands back the basename
\* instead of the caller's string.
AccessFileBasenameFallback(filename, stagedSuffix, renameOk) ==
    LET orig_basename == PathName(filename)
        temp_file == ChatGetFile(orig_basename, stagedSuffix)
    IN  IF ChatHasFile(orig_basename) /\ renameOk
        THEN [orig |-> orig_basename,
              path |-> MkPath(temp_file.dir, temp_file.stem, filename.suffix),
              fellBack |-> FALSE]
        ELSE [orig |-> orig_basename, path |-> orig_basename,
              fellBack |-> TRUE]

\* _access_file(filename) -> (orig_basename, temp_file)
AccessFile(filename, stagedSuffix, renameOk) ==
    LET orig_basename == PathName(filename)
        temp_file == ChatGetFile(orig_basename, stagedSuffix)
        new_temp_file_path ==
            MkPath(temp_file.dir, temp_file.stem, filename.suffix)
    IN  IF ChatHasFile(orig_basename) /\ renameOk
        THEN [orig |-> orig_basename, path |-> new_temp_file_path,
              fellBack |-> FALSE]
        ELSE [orig |-> orig_basename, path |-> filename, fellBack |-> TRUE]

\* read_csv_auto('{filename}'): the renamed staged copy of the attachment,
\* the local file FileB, or nothing
ReadCsvAuto(path) ==
    IF path = MkPath(StageDir, FileA.stem, FileA.suffix) THEN csvA
    ELSE IF path = FileB THEN CsvB
    ELSE NoFile

\* ------------------------------------------------------------------------
\* load_data
\* ------------------------------------------------------------------------

\* Variant: the file's rows are inserted into a table that already exists.
CreateTableAppend(main, content) ==
    IF main.exists THEN MkTable(main.cols, main.rows \o content.rows)
    ELSE MkTable(content.cols, content.rows)

\* Variant: CREATE OR REPLACE TABLE.
CreateTableReplace(main, content) == MkTable(content.cols, content.rows)

\* CREATE TABLE IF NOT EXISTS customers AS SELECT * FROM read_csv_auto(...)
CreateTableIfNotExists(main, content) ==
    IF main.exists THEN main ELSE MkTable(content.cols, content.rows)

\* one pass of the loop over the columns (lines 56-72)
ColumnLine(main, col) ==
    LET distinct_count == CountDistinct(main, col.name)
        categorical == distinct_count < CategoricalThreshold
    IN  [name |-> col.name, type |-> col.type,
         enumerated |-> categorical,
         values |-> IF categorical
                    THEN LET v == SelectDistinctOrdered(main, col.name)
                         IN  [i \in 1..Len(v) |-> Str(v[i])]
                    ELSE <<>>]

SchemaInfo(main, columns) ==
    [i \in 1..Len(columns) |-> ColumnLine(main, columns[i])]

\* a listed column that customers does not have: the COUNT query fails
SchemaRaises(main, columns) ==
    \E i \in 1..Len(columns) : ~HasCol(main, columns[i].name)

\* "Sample Data (5 rows)": SELECT * FROM customers LIMIT 5
SampleRows(main) == Limit(main.rows, SampleLimit)

\* the header line of the sample section: column_names (line 76)
SampleHeader(columns) == ColNames(columns)

\* what _access_file returned, kept with a call that raised later on
ResolvedOnly(res) ==
    [NoReport EXCEPT !.orig = res.orig, !.path = res.path,
                     !.fellBack = res.fellBack]

LoadReport(res, main, columns) ==
    [row_count |-> CountRows(main), orig |-> res.orig, path |-> res.path,
     fellBack |-> res.fellBack,
     schema |-> SchemaInfo(main, columns),
     header |-> SampleHeader(columns),
     rows |-> StrRows(SampleRows(main))]

load_data(filename, stagedSuffix, renameOk, mainFirst) ==
    LET res     == AccessFile(filename, stagedSuffix, renameOk)
        content == ReadCsvAuto(res.path)
        main    == CreateTableIfNotExists(db.main, content)
        columns == InfoSchemaColumns(main, db.other, mainFirst)
    IN  /\ UNCHANGED <<dirExists, removable, csvA>>
        /\ IF ~ConnectOk THEN
               /\ last' = Raised("load_data", filename, "IOException",
                                 ResolvedOnly(res))
               /\ UNCHANGED <<storeFile, db>>
           ELSE IF ~content.readable THEN
               /\ last' = Raised("load_data", filename, "IOException",
                                 ResolvedOnly(res))
               /\ storeFile' = FileAfterConnect
               /\ UNCHANGED db
           ELSE IF SchemaRaises(main, columns) THEN
               /\ last' = Raised("load_data", filename, "BinderException",
                                 ResolvedOnly(res))
               /\ storeFile' = FileAfterConnect
               /\ db' = MkDb(main, db.s2, db.other)
           ELSE
               /\ last' = Returned("load_data", filename, "loaded", "",
                                   LoadReport(res, main, columns))
               /\ storeFile' = FileAfterConnect
               /\ db' = MkDb(main, db.s2, db.other)

\* ------------------------------------------------------------------------
\* query
\* ------------------------------------------------------------------------

QueryReport(header, rows) ==
    [row_count |-> Len(rows), orig |-> MkPath("", "", ""),
     path |-> MkPath("", "", ""), fellBack |-> FALSE, schema |-> <<>>,
     header |-> header, rows |-> rows]

\* lines 109-129: the table list
TableListReport(result) ==
    QueryReport(IF result # <<>> THEN <<"TABLE_NAME", "TABLE_TYPE">> ELSE <<>>,
                result)

\* lines 131-158: column headers only when there are rows
ResultReport(r) ==
    QueryReport(IF r.rows # <<>> THEN r.cols ELSE <<>>, StrRows(r.rows))

query(sql_query) ==
    LET r == Execute(sql_query, db)
    IN  /\ UNCHANGED <<dirExists, removable, csvA>>
        /\ IF ~ConnectOk THEN
               \* line 105 is outside the try block
               /\ last' = Raised("query", sql_query, "IOException", NoReport)
               /\ UNCHANGED <<storeFile, db>>
           ELSE IF Strip(sql_query) = <<>> THEN
               /\ last' = Returned("query", sql_query, "tables", "",
                                   TableListReport(InfoSchemaTables(db.main)))
               /\ storeFile' = FileAfterConnect
               /\ UNCHANGED db
           ELSE IF r.ok THEN
               /\ last' = Returned("query", sql_query, "results", "",
                                   ResultReport(r))
               /\ storeFile' = FileAfterConnect
               /\ db' = r.db
           ELSE
               /\ last' = Returned("query", sql_query, "query_error", r.err,
                                   NoReport)
               /\ storeFile' = FileAfterConnect
               /\ UNCHANGED db

\* ------------------------------------------------------------------------
\* cleanup
\* ------------------------------------------------------------------------

\* Variant: connect() placed before the try block, as in query.
CleanupConnectFailureRaises == Raised("cleanup", <<>>, "IOException", NoReport)

\* lines 173 and 184-185: connect() fails inside the try block
CleanupConnectFailure ==
    Returned("cleanup", <<>>, "remove_error", "IOException", NoReport)

cleanup ==
    /\ UNCHANGED <<dirExists, removable, csvA>>
    /\ IF ~ConnectOk THEN
           /\ last' = CleanupConnectFailure
           /\ UNCHANGED <<storeFile, db>>
       ELSE IF FileAfterConnect THEN   \* os.path.exists(DB_PATH)
           IF removable THEN
               /\ last' = Returned("cleanup", <<>>, "removed", "", NoReport)
               /\ storeFile' = FALSE
               /\ db' = EmptyDb
           ELSE
               /\ last' = Returned("cleanup", <<>>, "remove_error",
                                   "PermissionError", NoReport)
               /\ storeFile' = FileAfterConnect
               /\ UNCHANGED db
       ELSE
           /\ last' = Returned("cleanup", <<>>, "not_exist", "", NoReport)
           /\ UNCHANGED <<storeFile, db>>

\* ------------------------------------------------------------------------
\* return_my_thread_id
\* ------------------------------------------------------------------------

\* request.headers.get("X-INVOKED_FOR_THREAD_ID"): <<>> stands for None
ThreadIds == {<<>>, <<"thread-1">>}

return_my_thread_id(thread_id) ==
    /\ last' = Returned("return_my_thread_id", thread_id, "thread_id", "",
                        NoReport)
    /\ UNCHANGED <<dirExists, removable, storeFile, db, csvA>>

\* ------------------------------------------------------------------------
\* Specification
\* ------------------------------------------------------------------------

Init ==
    /\ dirExists \in BOOLEAN
    /\ removable \in BOOLEAN
    /\ storeFile = FALSE
    /\ db = EmptyDb
    /\ csvA \in CsvFamily
    /\ last = [op |-> "none", arg |-> <<>>, status |-> "ok", msg |-> "none",
               err |-> "", existedBefore |-> FALSE, repeat |-> FALSE,
               report |-> NoReport]

LoadData ==
    \E filename \in FileNames, stagedSuffix \in StagedSuffixes,
       renameOk \in BOOLEAN, mainFirst \in BOOLEAN :
        load_data(filename, stagedSuffix, renameOk, mainFirst)

Query == \E sql_query \in SqlQueries : query(sql_query)

Cleanup == cleanup

ReturnMyThreadId == \E thread_id \in ThreadIds : return_my_thread_id(thread_id)

Next == LoadData \/ Query \/ Cleanup \/ ReturnMyThreadId

Spec == Init /\ [][Next]_vars

\* ------------------------------------------------------------------------
\* Properties
\* ------------------------------------------------------------------------

IsLoad   == last.op = "load_data"
LoadedOk == last.op = "load_data" /\ last.status = "ok"

Min(a, b) == IF a < b THEN a ELSE b

\* C1: two consecutive load_data calls with the same filename, both
\* successful, report the same row count, and customers holds after the
\* second call exactly the rows it held after the first.
C1_LoadTwiceIdempotent ==
    [][(last'.op = "load_data" /\ last'.status = "ok" /\ last'.repeat)
         => /\ last.op = "load_data" /\ last.arg = last'.arg
            /\ last'.report.row_count = last.report.row_count
            /\ last'.report.row_count = CountRows(db'.main)
            /\ db'.main = db.main]_vars

\* a second successful load of the same non-empty file has returned
C1_Witness ==
    /\ LoadedOk /\ last.repeat
    /\ last.report.row_count > 0
    /\ db.main.rows = csvA.rows

\* C2: every query call returns a Response, whatever the state of the store.
C2_QueryNeverRaises == last.op = "query" => last.status = "ok"

\* C3: a cleanup call that meets no filesystem error reports deletion exactly
\* when the store file existed at its start, and a cleanup that directly
\* follows a cleanup reports that the file does not exist.
C3_CleanupTwice ==
    (last.op = "cleanup" /\ last.msg # "remove_error")
      => /\ last.existedBefore => last.msg = "removed"
         /\ ~last.existedBefore => last.msg = "not_exist"
         /\ last.repeat => last.msg = "not_exist"

\* C4 as stated: once customers exists, only cleanup changes or drops it.
C4_OnlyCleanupChangesTable ==
    [][(db.main.exists /\ db'.main # db.main) => last'.op = "cleanup"]_vars

\* C4 amended: once customers exists, it is changed or dropped only by a
\* cleanup that removes the store file or by a query call with non-blank
\* SQL text; load_data, return_my_thread_id and the table-listing query
\* leave it as it is.
C4_TableChangedOnlyByCleanupOrSql ==
    [][(db.main.exists /\ db'.main # db.main)
         => \/ last'.op = "cleanup" /\ last'.msg = "removed"
            \/ last'.op = "query" /\ Strip(last'.arg) # <<>>]_vars

\* a load of another file has returned with the first file's table in place
C4_Witness ==
    /\ LoadedOk /\ last.arg = FileB
    /\ db.main.exists /\ db.main.rows = csvA.rows /\ csvA.rows # CsvB.rows
    /\ last.existedBefore

\* C5: when the attachment service does not provide the file, _access_file
\* returns the basename and the caller's string unchanged; when that path
\* is no readable file either, load_data raises.
C5_FallbackAndPropagation ==
    IsLoad =>
      /\ ~ChatHasFile(PathName(last.arg)) => last.report.fellBack
      /\ last.report.fellBack
           => /\ last.report.orig = PathName(last.arg)
              /\ last.report.path = last.arg
      /\ (last.report.fellBack /\ ~ReadCsvAuto(last.arg).readable)
           => last.status = "raise"

\* the directory exists, the file is in neither place, and the load raised
C5_Witness ==
    /\ IsLoad /\ last.arg = FileReport /\ dirExists
    /\ last.report.fellBack /\ last.report.path = FileReport
    /\ last.status = "raise" /\ last.err = "IOException"

\* the values of a column as SELECT DISTINCT returns them
DistinctValues(name) == ColumnValues(db.main, name)

\* C6: every schema line enumerates values exactly when the column has
\* fewer than 10 distinct values, and then all of them in ascending order;
\* 9 distinct values are all listed, 10 are not listed.
C6_CategoricalThreshold ==
    LoadedOk =>
      \A i \in 1..Len(last.report.schema) :
        LET line == last.report.schema[i]
            k    == Cardinality(DistinctValues(line.name))
        IN  /\ line.enumerated <=> k < CategoricalThreshold
            /\ line.enumerated
                 => /\ Len(line.values) = k
                    /\ \A j \in 1..(Len(line.values) - 1) :
                         (line.values[j][1] = "int"
                            /\ line.values[j + 1][1] = "int")
                           => line.values[j][2] < line.values[j + 1][2]
            /\ k = 9 => Len(line.values) = 9
            /\ k = 10 => ~line.enumerated

\* C7: the sample section has min(5, row count) rows and a header that is
\* the column names of customers in definition order.
C7_SampleSection ==
    LoadedOk =>
      /\ Len(last.report.rows) = Min(SampleLimit, CountRows(db.main))
      /\ last.report.rows = StrRows(Limit(db.main.rows, SampleLimit))
      /\ last.report.header = ColNames(db.main.cols)

\* C8: cleanup always returns a Response with one of its three messages,
\* an error message carries the error, and after "removed" the store file
\* is absent.
C8_CleanupNeverRaises ==
    last.op = "cleanup" =>
      /\ last.status = "ok"
      /\ last.msg \in {"removed", "not_exist", "remove_error"}
      /\ last.msg = "remove_error" => last.err # ""
      /\ last.msg = "removed" => ~storeFile

\* cleanup has returned the error message for a directory that is missing
C8_Witness ==
    /\ last.op = "cleanup" /\ ~dirExists
    /\ last.msg = "remove_error" /\ last.err = "IOException"

\* C9: a successful load_data call that starts with customers in place
\* leaves the table as it is and reports the row count of that table.
C9_LoadIsNoOpOnExistingTable ==
    [][(db.main.exists /\ last'.op = "load_data" /\ last'.status = "ok")
         => /\ db'.main = db.main
            /\ last'.report.row_count = CountRows(db.main)]_vars

\* the local file was loaded while customers held the attachment's rows
C9_Witness ==
    /\ LoadedOk /\ last.arg = FileB /\ ~last.repeat
    /\ db.main.exists /\ db.main.cols # CsvB.cols
    /\ last.report.row_count = CountRows(db.main)
    /\ last.report.row_count # Len(CsvB.rows)

\* C10: the store file appears only during load_data and disappears only
\* during cleanup; query, cleanup and return_my_thread_id do not create it.
C10_StoreFileLifecycle ==
    [][/\ (~storeFile /\ storeFile') => last'.op = "load_data"
       /\ (storeFile /\ ~storeFile') => last'.op = "cleanup"]_vars

====
